---- MODULE Spec2Model ----
(***************************************************************************)
(* Model of the polling interval timer of src/Timer.hpp and src/Timer.cpp. *)
(*                                                                         *)
(* The timer object is the record `timer` (the four data members of class  *)
(* Timer); the platform clock millis() is the variable `now`.  Every       *)
(* member function is a pure operator Timer_X(self_, ...) computed as the  *)
(* code computes it, and an action X that applies it to `timer`.           *)
(*                                                                         *)
(* Integer widths are scaled: uint32_t has BitsU32 bits and uint64_t has   *)
(* BitsU64 bits, and every unsigned operation is reduced modulo its width. *)
(* The remaining variables record the last call, its result and the        *)
(* object before it, so that properties of calls are state predicates.     *)
(***************************************************************************)
EXTENDS Integers, Naturals, FiniteSets, Sequences, TLC

VARIABLES
    now,     \* the value millis() returns
    timer,   \* the Timer object
    op,      \* the last call: [name, arg, mode]
    ret,     \* the bool the last call returned (FALSE for a void call)
    val,     \* the uint32_t the last call returned (0 for any other call)
    pre,     \* [timer, obs] as they were before the last call
    obs      \* what the call history so far amounts to (see NextObs)

vars == <<now, timer, op, ret, val, pre, obs>>

----------------------------------------------------------------------------
(* Widths and the clock's range. *)

\* Width of uint32_t in the model.
BitsU32 == 2

\* Width of uint64_t in the model.
BitsU64 == 5

\* How many ms of clock time are followed from an epoch's first value.
Horizon == 8

\* Largest numerator (in absolute value) of the float arguments tried.
MaxMantissa == 6

RECURSIVE Pow2(_)
Pow2(n) == IF n = 0 THEN 1 ELSE 2 * Pow2(n - 1)

\* numeric_limits<uint32_t>::max()
UINT32_MAX == Pow2(BitsU32) - 1

\* numeric_limits<uint64_t>::max()
UINT64_MAX == Pow2(BitsU64) - 1

Uint32 == 0 .. UINT32_MAX

\* Conversion of an integer value to uint64_t (arithmetic modulo 2^64).
ToUint64(x) == x % (UINT64_MAX + 1)

\* static_cast<int64_t> of a uint64_t/uint32_t value (two's complement).
ToInt64(x) == IF x % (UINT64_MAX + 1) > UINT64_MAX \div 2
              THEN (x % (UINT64_MAX + 1)) - (UINT64_MAX + 1)
              ELSE x % (UINT64_MAX + 1)

\* The clock is an uptime in ms that never wraps: it stays below
\* 2^64 - 2^32 (Timer.hpp: "~584942417 years until an overflow").
MaxClock == UINT64_MAX - UINT32_MAX - 1

\* The clock values followed: an epoch right after boot and an epoch at
\* the end of the clock's range.
ClockValues ==
    {c \in 0 .. MaxClock : c <= Horizon \/ c >= MaxClock - Horizon}

\* millis(): the platform's clock reading.
millis == now

----------------------------------------------------------------------------
(* Timer.hpp *)

TIMER_CONTINUE == FALSE
TIMER_RESET == TRUE

\* NarrowConvertToUint32<T>(value_), T given by numeric_limits<T>::max().
NarrowConvertToUint32(value_, TMax) ==
    IF value_ < 0 THEN 0
    ELSE IF TMax < UINT32_MAX THEN value_ % (UINT32_MAX + 1)
    ELSE IF value_ > UINT32_MAX THEN UINT32_MAX
    ELSE value_ % (UINT32_MAX + 1)

\* The float arguments tried: the finite values num / 2^exp (every finite
\* float is such a fraction), the infinities and NaN.
Floats ==
    {[kind |-> "num", num |-> n, exp |-> e] :
        n \in -MaxMantissa .. MaxMantissa, e \in {0, 10, 16}}
    \cup {[kind |-> k, num |-> 0, exp |-> 0] : k \in {"inf", "-inf", "nan"}}

\* static_cast<double>(f) * multi: exact in double, since a float's 24-bit
\* significand times a 16-bit integer fits the 53 bits of a double.
DoubleTimes(f, multi) ==
    [kind |-> f.kind, num |-> f.num * multi, exp |-> f.exp]

\* NarrowConvertToUint32<double>(value_): the set of values the call can
\* return.  With NaN every comparison is false and the final
\* static_cast<uint32_t> is undefined: any value can result.
\* numeric_limits<double>::max() < numeric_limits<uint32_t>::max() is false.
NarrowConvertToUint32_double(value_) ==
    IF value_.kind = "nan" THEN 0 .. UINT32_MAX
    ELSE IF value_.kind = "-inf" \/ (value_.kind = "num" /\ value_.num < 0)
    THEN {0}
    ELSE IF value_.kind = "inf" \/ value_.num > UINT32_MAX * Pow2(value_.exp)
    THEN {UINT32_MAX}
    ELSE {value_.num \div Pow2(value_.exp)}

----------------------------------------------------------------------------
(* Timer.cpp: the member functions as functions of the object and clock. *)

SEC_TO_MILLIS_MULTI == 1000

MIN_TO_MILLIS_MULTI == 60000

\* SecToMillis with a plain static_cast<uint32_t> of the product.
Timer_SecToMillis_PlainCast(secondsToConvert_) ==
    IF secondsToConvert_.kind # "num" THEN 0 .. UINT32_MAX
    ELSE {(IF secondsToConvert_.num >= 0
           THEN (secondsToConvert_.num * SEC_TO_MILLIS_MULTI)
                    \div Pow2(secondsToConvert_.exp)
           ELSE -((-secondsToConvert_.num * SEC_TO_MILLIS_MULTI)
                    \div Pow2(secondsToConvert_.exp)))
          % (UINT32_MAX + 1)}

\* uint32_t Timer::SecToMillis(float secondsToConvert_): the values the call
\* can return.
Timer_SecToMillis(secondsToConvert_) ==
    NarrowConvertToUint32_double(
        DoubleTimes(secondsToConvert_, SEC_TO_MILLIS_MULTI))

\* uint32_t Timer::MinToMillis(float minutesToConvert_): the values the call
\* can return.
Timer_MinToMillis(minutesToConvert_) ==
    NarrowConvertToUint32_double(
        DoubleTimes(minutesToConvert_, MIN_TO_MILLIS_MULTI))

\* ResetInterval that also activates the timer.
Timer_ResetInterval_Activating(self_, clock) ==
    [self_ EXCEPT !.mOverrideIntervalReached = FALSE,
                  !.mMillisStartPeriod = clock,
                  !.mActivated = TRUE]

\* void Timer::ResetInterval()
Timer_ResetInterval(self_, clock) ==
    [self_ EXCEPT !.mOverrideIntervalReached = FALSE,
                  !.mMillisStartPeriod = clock]

\* Deactivate without the reset that clears the override.
Timer_Deactivate_NoReset(self_, clock) ==
    [self_ EXCEPT !.mActivated = FALSE]

\* auto Timer::Deactivate() -> void
Timer_Deactivate(self_, clock) ==
    [Timer_ResetInterval(self_, clock) EXCEPT !.mActivated = FALSE]

\* Activate without the reset that restarts the period.
Timer_Activate_NoReset(self_, clock) ==
    [self_ EXCEPT !.mActivated = TRUE]

\* auto Timer::Activate() -> void
Timer_Activate(self_, clock) ==
    [Timer_ResetInterval(self_, clock) EXCEPT !.mActivated = TRUE]

\* Timer::Timer(uint32_t intervalInMillis_) with the default member
\* initializers of Timer.hpp.
Timer_Timer(intervalInMillis_, clock) ==
    [mMillisStartPeriod |-> clock,
     mMillisInterval |-> intervalInMillis_,
     mOverrideIntervalReached |-> FALSE,
     mActivated |-> TRUE]

\* The default constructor without its Deactivate() call.
Timer_TimerDefault_NoDeactivate(clock) ==
    Timer_Timer(UINT32_MAX, clock)

\* Timer::Timer()
Timer_TimerDefault(clock) ==
    Timer_Deactivate(Timer_Timer(UINT32_MAX, clock), clock)

\* The elapsed test with the sum formed in uint32_t.
ElapsedTest_Sum32(self_, clock) ==
    (self_.mMillisStartPeriod + self_.mMillisInterval) % (UINT32_MAX + 1)
        < clock

\* (mMillisStartPeriod + mMillisInterval) < millis(), in uint64_t.
ElapsedTest(self_, clock) ==
    ToUint64(self_.mMillisStartPeriod + self_.mMillisInterval) < clock

\* IntervalReached without the test of mActivated.
Timer_IntervalReached_NoActiveTest(self_, clock) ==
    IF self_.mOverrideIntervalReached \/ ElapsedTest(self_, clock)
    THEN [self |-> Timer_ResetInterval(self_, clock), ret |-> TRUE]
    ELSE [self |-> self_, ret |-> FALSE]

\* IntervalReached restarting the period at the old boundary
\* (mMillisStartPeriod + mMillisInterval) instead of at millis().
Timer_IntervalReached_FixedSchedule(self_, clock) ==
    IF ~self_.mActivated
    THEN [self |-> self_, ret |-> FALSE]
    ELSE IF self_.mOverrideIntervalReached \/ ElapsedTest(self_, clock)
    THEN [self |-> [self_ EXCEPT
                      !.mOverrideIntervalReached = FALSE,
                      !.mMillisStartPeriod =
                          ToUint64(self_.mMillisStartPeriod
                                   + self_.mMillisInterval)],
          ret |-> TRUE]
    ELSE [self |-> self_, ret |-> FALSE]

\* IntervalReached restarting the period but leaving the override pending.
Timer_IntervalReached_KeepOverride(self_, clock) ==
    IF ~self_.mActivated
    THEN [self |-> self_, ret |-> FALSE]
    ELSE IF self_.mOverrideIntervalReached \/ ElapsedTest(self_, clock)
    THEN [self |-> [self_ EXCEPT !.mMillisStartPeriod = clock],
          ret |-> TRUE]
    ELSE [self |-> self_, ret |-> FALSE]

\* IntervalReached with the test of mActivated inverted.
Timer_IntervalReached_InvertedActiveTest(self_, clock) ==
    IF self_.mActivated
    THEN [self |-> self_, ret |-> FALSE]
    ELSE IF self_.mOverrideIntervalReached \/ ElapsedTest(self_, clock)
    THEN [self |-> Timer_ResetInterval(self_, clock), ret |-> TRUE]
    ELSE [self |-> self_, ret |-> FALSE]

\* bool Timer::IntervalReached(): the object after the call and the result.
Timer_IntervalReached(self_, clock) ==
    IF ~self_.mActivated
    THEN [self |-> self_, ret |-> FALSE]
    ELSE IF self_.mOverrideIntervalReached \/ ElapsedTest(self_, clock)
    THEN [self |-> Timer_ResetInterval(self_, clock), ret |-> TRUE]
    ELSE [self |-> self_, ret |-> FALSE]

\* TimeLeftInMillis with mMillisStartPeriod + mMillisInterval formed in
\* uint32_t.
Timer_TimeLeftInMillis_Sum32(self_, clock) ==
    NarrowConvertToUint32(
        ToUint64(((self_.mMillisStartPeriod + self_.mMillisInterval)
                     % (UINT32_MAX + 1))
                 - clock),
        UINT64_MAX)

\* uint32_t Timer::TimeLeftInMillis() const
\* uint64_t + int64_t - uint64_t is computed in uint64_t.
Timer_TimeLeftInMillis(self_, clock) ==
    NarrowConvertToUint32(
        ToUint64(ToUint64(self_.mMillisStartPeriod
                          + ToUint64(ToInt64(self_.mMillisInterval)))
                 - clock),
        UINT64_MAX)

\* TimePassedInMillis with a plain static_cast<uint32_t> of the difference.
Timer_TimePassedInMillis_PlainCast(self_, clock) ==
    ToUint64(ToUint64(ToInt64(clock)) - self_.mMillisStartPeriod)
        % (UINT32_MAX + 1)

\* uint32_t Timer::TimePassedInMillis() const
\* int64_t - uint64_t is computed in uint64_t.
Timer_TimePassedInMillis(self_, clock) ==
    NarrowConvertToUint32(
        ToUint64(ToUint64(ToInt64(clock)) - self_.mMillisStartPeriod),
        UINT64_MAX)

\* SetInterval resetting the timer whatever resetTimer_ is.
Timer_SetInterval_AlwaysReset(self_, millisInterval_, resetTimer_, clock) ==
    [Timer_ResetInterval([self_ EXCEPT !.mMillisInterval = millisInterval_],
                         clock)
        EXCEPT !.mActivated = TRUE]

\* SetInterval activating the timer only when it also resets it.
Timer_SetInterval_ActivateOnReset(self_, millisInterval_, resetTimer_, clock) ==
    LET a == [self_ EXCEPT !.mMillisInterval = millisInterval_]
    IN  IF TIMER_RESET = resetTimer_
        THEN [Timer_ResetInterval(a, clock) EXCEPT !.mActivated = TRUE]
        ELSE a

\* void Timer::SetInterval(uint32_t millisInterval_, bool resetTimer_)
Timer_SetInterval(self_, millisInterval_, resetTimer_, clock) ==
    LET a == [self_ EXCEPT !.mMillisInterval = millisInterval_]
        b == IF TIMER_RESET = resetTimer_ THEN Timer_ResetInterval(a, clock)
             ELSE a
    IN  [b EXCEPT !.mActivated = TRUE]

\* void Timer::OverrideIntervalReached()
Timer_OverrideIntervalReached(self_) ==
    [self_ EXCEPT !.mOverrideIntervalReached = TRUE]

\* auto IsActive() const -> bool
Timer_IsActive(self_) == self_.mActivated

\* uint32_t GetInterval() const
Timer_GetInterval(self_) == self_.mMillisInterval

----------------------------------------------------------------------------
(* The call history. *)

Call(name, arg, mode) == [name |-> name, arg |-> arg, mode |-> mode]

ObsInit ==
    [firedNow |-> FALSE, ovPhase |-> 0, ovDiscarded |-> FALSE,
     ovInactive |-> FALSE, deactivated |-> -1]

\* The history after the call `name`, which took the object from `timer`
\* to self_ and returned r.
\*   firedNow     an IntervalReached returned true at this clock value and
\*                OverrideIntervalReached was not called since
\*   ovPhase      1: the last call was OverrideIntervalReached on an active
\*                timer; 2: that call and then one IntervalReached
\*   ovDiscarded  a pending override met ResetInterval, Activate or
\*                Deactivate, and no IntervalReached or
\*                OverrideIntervalReached was called since
\*   ovInactive   the pending override was requested while inactive
\*   deactivated  GetInterval() at the last Deactivate call if since then
\*                only time passed, else -1
NextObs(name, self_, r) ==
    [firedNow |->
        IF name \in {"Tick", "OverrideIntervalReached"} THEN FALSE
        ELSE IF name = "IntervalReached" /\ r THEN TRUE
        ELSE obs.firedNow,
     ovPhase |->
        IF name = "OverrideIntervalReached" /\ timer.mActivated THEN 1
        ELSE IF name = "IntervalReached" /\ obs.ovPhase = 1 THEN 2
        ELSE 0,
     ovDiscarded |->
        IF name \in {"ResetInterval", "Activate", "Deactivate"}
        THEN timer.mOverrideIntervalReached \/ obs.ovDiscarded
        ELSE IF name \in {"OverrideIntervalReached", "IntervalReached"}
        THEN FALSE
        ELSE obs.ovDiscarded,
     ovInactive |->
        IF name = "OverrideIntervalReached" THEN ~timer.mActivated
        ELSE obs.ovInactive /\ self_.mOverrideIntervalReached,
     deactivated |->
        IF name = "Deactivate" THEN timer.mMillisInterval
        ELSE IF name = "Tick" THEN obs.deactivated
        ELSE -1]

\* A call took the object to self_ and returned r (bool) or v (uint32_t).
Step(call, self_, r, v) ==
    /\ timer' = self_
    /\ op' = call
    /\ ret' = r
    /\ val' = v
    /\ pre' = [timer |-> timer, obs |-> obs]
    /\ obs' = NextObs(call.name, self_, r)

----------------------------------------------------------------------------
(* The state machine. *)

\* The object right after construction, at any clock value.
Init ==
    /\ now \in ClockValues
    /\ \/ \E i \in Uint32 :
             /\ timer = Timer_Timer(i, now)
             /\ op = Call("Timer", i, FALSE)
       \/ /\ timer = Timer_TimerDefault(now)
          /\ op = Call("TimerDefault", 0, FALSE)
    /\ ret = FALSE
    /\ val = 0
    /\ pre = [timer |-> timer, obs |-> ObsInit]
    /\ obs = ObsInit

\* Time passes: the clock is non-decreasing.
Tick ==
    /\ now + 1 \in ClockValues
    /\ now' = now + 1
    /\ Step(Call("Tick", 0, FALSE), timer, FALSE, 0)

IntervalReached ==
    /\ LET res == Timer_IntervalReached(timer, millis)
       IN  Step(Call("IntervalReached", 0, FALSE), res.self, res.ret, 0)
    /\ UNCHANGED now

TimeLeftInMillis ==
    /\ Step(Call("TimeLeftInMillis", 0, FALSE), timer, FALSE,
            Timer_TimeLeftInMillis(timer, millis))
    /\ UNCHANGED now

TimePassedInMillis ==
    /\ Step(Call("TimePassedInMillis", 0, FALSE), timer, FALSE,
            Timer_TimePassedInMillis(timer, millis))
    /\ UNCHANGED now

Activate ==
    /\ Step(Call("Activate", 0, FALSE), Timer_Activate(timer, millis),
            FALSE, 0)
    /\ UNCHANGED now

Deactivate ==
    /\ Step(Call("Deactivate", 0, FALSE), Timer_Deactivate(timer, millis),
            FALSE, 0)
    /\ UNCHANGED now

IsActive ==
    /\ Step(Call("IsActive", 0, FALSE), timer, Timer_IsActive(timer), 0)
    /\ UNCHANGED now

GetInterval ==
    /\ Step(Call("GetInterval", 0, FALSE), timer, FALSE,
            Timer_GetInterval(timer))
    /\ UNCHANGED now

SetInterval ==
    /\ \E millisInterval_ \in Uint32, resetTimer_ \in BOOLEAN :
          Step(Call("SetInterval", millisInterval_, resetTimer_),
               Timer_SetInterval(timer, millisInterval_, resetTimer_, millis),
               FALSE, 0)
    /\ UNCHANGED now

ResetInterval ==
    /\ Step(Call("ResetInterval", 0, FALSE),
            Timer_ResetInterval(timer, millis), FALSE, 0)
    /\ UNCHANGED now

OverrideIntervalReached ==
    /\ Step(Call("OverrideIntervalReached", 0, FALSE),
            Timer_OverrideIntervalReached(timer), FALSE, 0)
    /\ UNCHANGED now

\* The static conversions: they take a float and touch no object.
SecToMillis ==
    /\ \E secondsToConvert_ \in Floats :
          \E v \in Timer_SecToMillis(secondsToConvert_) :
             Step(Call("SecToMillis", secondsToConvert_, FALSE),
                  timer, FALSE, v)
    /\ UNCHANGED now

MinToMillis ==
    /\ \E minutesToConvert_ \in Floats :
          \E v \in Timer_MinToMillis(minutesToConvert_) :
             Step(Call("MinToMillis", minutesToConvert_, FALSE),
                  timer, FALSE, v)
    /\ UNCHANGED now

Next ==
    \/ Tick
    \/ IntervalReached
    \/ TimeLeftInMillis
    \/ TimePassedInMillis
    \/ Activate
    \/ Deactivate
    \/ IsActive
    \/ GetInterval
    \/ SetInterval
    \/ ResetInterval
    \/ OverrideIntervalReached

Spec == Init /\ [][Next]_vars

\* A program whose loop() polls the timer on every pass and never calls
\* Deactivate, Activate, ResetInterval or SetInterval, while the clock runs.
NextLoop ==
    \/ Tick
    \/ IntervalReached
    \/ OverrideIntervalReached
    \/ TimeLeftInMillis
    \/ TimePassedInMillis
    \/ IsActive
    \/ GetInterval

\* The clock keeps advancing and loop() keeps being run.
SpecLoop ==
    /\ Init
    /\ [][NextLoop]_vars
    /\ WF_vars(Tick)
    /\ WF_vars(IntervalReached)

\* A program that, with a timer constructed, calls the conversions.
NextConvert ==
    \/ SecToMillis
    \/ MinToMillis

SpecConvert == Init /\ [][NextConvert]_vars

----------------------------------------------------------------------------
(* Properties. *)

\* The last call was IntervalReached.
Polled == op.name = "IntervalReached"

\* ms elapsed at the last call since the period start it found.
ElapsedBefore == now - pre.timer.mMillisStartPeriod

\* The last call found the timer active with no override pending.
ArmedBefore ==
    pre.timer.mActivated /\ ~pre.timer.mOverrideIntervalReached

\* x clamped to [0, UINT32_MAX].
ClampToUint32(x) ==
    IF x < 0 THEN 0 ELSE IF x > UINT32_MAX THEN UINT32_MAX ELSE x

\* C1: an IntervalReached call on an active timer with no override pending
\* returns true whenever now >= period_start + interval, the boundary
\* now = period_start + interval included.
C1_FiresAtOrAfterInterval ==
    (Polled /\ ArmedBefore
        /\ now >= pre.timer.mMillisStartPeriod + pre.timer.mMillisInterval)
    => ret = TRUE

\* C2: IntervalReached never fires early: on an active timer with no
\* override pending a call made while fewer than GetInterval() ms have
\* elapsed since the period start returns false; and no call returns true
\* when another already did at the same clock value with no
\* OverrideIntervalReached in between.
C2_NeverFiresEarly ==
    /\ (Polled /\ ArmedBefore /\ ElapsedBefore < pre.timer.mMillisInterval)
       => ret = FALSE
    /\ (Polled /\ ret) => ~pre.obs.firedNow

\* An early poll of an armed timer, some time into its period.
C2_Witness ==
    /\ Polled /\ ArmedBefore
    /\ 0 < ElapsedBefore /\ ElapsedBefore < pre.timer.mMillisInterval
    /\ ret = FALSE

\* C3: while the timer is inactive every IntervalReached call returns false
\* whatever the elapsed time, the interval and the override flag are, and
\* changes nothing of the object.
C3_InactiveNeverFires ==
    (Polled /\ ~pre.timer.mActivated) => (ret = FALSE /\ timer = pre.timer)

\* A poll of an inactive timer whose interval has run out and whose
\* override flag is set.
C3_Witness ==
    /\ Polled /\ ~pre.timer.mActivated
    /\ pre.timer.mOverrideIntervalReached
    /\ ElapsedBefore > pre.timer.mMillisInterval
    /\ ret = FALSE

\* C4: an IntervalReached call that returns true leaves period_start equal
\* to the clock value of that call and no override pending; one that returns
\* false leaves period_start and the override flag as they were.
C4_ResetOnFire ==
    /\ (Polled /\ ret)
       => /\ timer.mMillisStartPeriod = now
          /\ ~timer.mOverrideIntervalReached
    /\ (Polled /\ ~ret)
       => /\ timer.mMillisStartPeriod = pre.timer.mMillisStartPeriod
          /\ timer.mOverrideIntervalReached
                = pre.timer.mOverrideIntervalReached

\* A poll that fires more than 1 ms past the period's boundary.
C4_Witness ==
    /\ Polled /\ ret /\ ArmedBefore
    /\ pre.timer.mMillisInterval > 0
    /\ ElapsedBefore > pre.timer.mMillisInterval + 1
    /\ timer.mMillisStartPeriod = now

\* C5: on an active timer OverrideIntervalReached followed immediately by
\* IntervalReached returns true, and a further IntervalReached right after
\* it returns false.
C5_OverrideOneShot ==
    /\ (Polled /\ pre.obs.ovPhase = 1) => ret = TRUE
    /\ (Polled /\ pre.obs.ovPhase = 2) => ret = FALSE

\* The second poll after an override on a timer with the largest interval,
\* with no time elapsed.
C5_Witness ==
    /\ Polled /\ pre.obs.ovPhase = 2 /\ ret = FALSE
    /\ timer.mMillisInterval = UINT32_MAX
    /\ timer.mMillisStartPeriod = now

\* The last call is one of those that reset period_start.
ResettingCall ==
    \/ op.name \in {"Activate", "Deactivate", "ResetInterval"}
    \/ op.name = "SetInterval" /\ op.mode = TIMER_RESET
    \/ Polled /\ ret

\* C6: every call that resets period_start leaves no override pending; and
\* when a pending override met ResetInterval, Activate or Deactivate, the
\* next IntervalReached returns false if fewer than GetInterval() ms have
\* elapsed.
C6_ResetClearsOverride ==
    /\ ResettingCall
       => /\ ~timer.mOverrideIntervalReached
          /\ timer.mMillisStartPeriod = now
    /\ (Polled /\ pre.obs.ovDiscarded
          /\ ElapsedBefore < pre.timer.mMillisInterval)
       => ret = FALSE

\* The first poll of an active timer after its pending override was
\* discarded, early in the period.
C6_Witness ==
    /\ Polled /\ pre.obs.ovDiscarded /\ pre.timer.mActivated
    /\ ElapsedBefore < pre.timer.mMillisInterval
    /\ ret = FALSE

\* C7: an override requested while the timer is inactive has no effect: the
\* IntervalReached call that finds it pending returns what it would have
\* returned without it.
C7_InactiveOverrideNoEffect ==
    (Polled /\ pre.obs.ovInactive)
    => ret = (pre.timer.mActivated /\ ElapsedTest(pre.timer, now))

\* C8: TimeLeftInMillis returns period_start + interval - now clamped to
\* [0, UINT32_MAX], so 0 at and past the period's boundary.
C8_TimeLeftClamped ==
    op.name = "TimeLeftInMillis"
    => val = ClampToUint32(timer.mMillisStartPeriod + timer.mMillisInterval
                           - now)

\* C9: SetInterval(v, mode) leaves the timer active with GetInterval() = v,
\* for every v, both modes and every prior state.
C9_SetIntervalActivates ==
    op.name = "SetInterval"
    => /\ Timer_IsActive(timer)
       /\ Timer_GetInterval(timer) = op.arg

\* SetInterval(UINT32_MAX, TIMER_CONTINUE) on an inactive timer with
\* another interval.
C9_Witness ==
    /\ op.name = "SetInterval" /\ op.mode = TIMER_CONTINUE
    /\ op.arg = UINT32_MAX
    /\ ~pre.timer.mActivated
    /\ pre.timer.mMillisInterval # op.arg
    /\ timer.mActivated

\* C10: Deactivate followed by Activate at clock value t leaves the object
\* equal to one constructed at t with the interval the timer had: active, no
\* override pending, period_start = t.
C10_ReactivateIsFresh ==
    (op.name = "Activate" /\ pre.obs.deactivated >= 0)
    => timer = Timer_Timer(pre.obs.deactivated, now)

\* An Activate some time after the Deactivate.
C10_Witness ==
    /\ op.name = "Activate" /\ pre.obs.deactivated >= 0
    /\ pre.timer.mMillisStartPeriod < now
    /\ timer = Timer_Timer(pre.obs.deactivated, now)

\* C11: the default constructor yields an inactive timer with interval
\* UINT32_MAX and no override pending; the constructor taking an interval
\* yields an active timer with that interval, no override pending and
\* period_start equal to the clock reading at construction.
C11_Constructors ==
    /\ op.name = "TimerDefault"
       => /\ ~Timer_IsActive(timer)
          /\ Timer_GetInterval(timer) = UINT32_MAX
          /\ ~timer.mOverrideIntervalReached
    /\ op.name = "Timer"
       => /\ Timer_IsActive(timer)
          /\ Timer_GetInterval(timer) = op.arg
          /\ ~timer.mOverrideIntervalReached
          /\ timer.mMillisStartPeriod = now

\* A timer default-constructed late in the clock's range.
C11_Witness ==
    /\ op.name = "TimerDefault"
    /\ now > Horizon
    /\ ~timer.mActivated
    /\ timer.mMillisInterval = UINT32_MAX

\* C12: TimePassedInMillis returns now - period_start clamped to
\* [0, UINT32_MAX]: 0 right after any reset, one more per ms of clock
\* advance while below UINT32_MAX, and UINT32_MAX from then on.
C12_TimePassedClamped ==
    /\ op.name = "TimePassedInMillis"
       => val = ClampToUint32(now - timer.mMillisStartPeriod)
    /\ ResettingCall => Timer_TimePassedInMillis(timer, millis) = 0
    /\ op.name = "Tick"
       => Timer_TimePassedInMillis(timer, millis)
            = IF Timer_TimePassedInMillis(pre.timer, millis - 1) < UINT32_MAX
              THEN Timer_TimePassedInMillis(pre.timer, millis - 1) + 1
              ELSE UINT32_MAX

\* TimePassedInMillis called more than UINT32_MAX + 1 ms into the period.
C12_Witness ==
    /\ op.name = "TimePassedInMillis"
    /\ now - timer.mMillisStartPeriod > UINT32_MAX + 1
    /\ val = UINT32_MAX

\* C14: SetInterval(v, TIMER_CONTINUE) leaves period_start and the override
\* flag as they were; SetInterval(v, TIMER_RESET) sets period_start to the
\* current clock value and clears the override flag.
C14_SetIntervalModes ==
    /\ (op.name = "SetInterval" /\ op.mode = TIMER_CONTINUE)
       => /\ timer.mMillisStartPeriod = pre.timer.mMillisStartPeriod
          /\ timer.mOverrideIntervalReached
                = pre.timer.mOverrideIntervalReached
    /\ (op.name = "SetInterval" /\ op.mode = TIMER_RESET)
       => /\ timer.mMillisStartPeriod = millis
          /\ ~timer.mOverrideIntervalReached

\* SetInterval(v, TIMER_CONTINUE) with more than v ms already elapsed in a
\* period that had not ended: the next poll fires at once.
C14_Witness ==
    /\ op.name = "SetInterval" /\ op.mode = TIMER_CONTINUE
    /\ pre.timer.mActivated /\ ~pre.timer.mOverrideIntervalReached
    /\ ~ElapsedTest(pre.timer, millis)
    /\ Timer_IntervalReached(timer, millis).ret
    /\ timer.mMillisStartPeriod < now

\* C16: the elapsed test of IntervalReached is the comparison
\* period_start + interval < now of the unbounded integers, for every
\* interval and every period_start <= now below 2^64 - 2^32.
C16_ElapsedTestExact ==
    /\ (Polled /\ ArmedBefore)
       => ret = (pre.timer.mMillisStartPeriod + pre.timer.mMillisInterval
                    < now)
    /\ \A i \in Uint32 :
          ElapsedTest([timer EXCEPT !.mMillisInterval = i], millis)
            = (timer.mMillisStartPeriod + i < now)

\* A poll with the largest interval whose sum with period_start does not
\* fit 32 bits and lies ahead of the clock.
C16_Witness ==
    /\ Polled /\ ArmedBefore
    /\ pre.timer.mMillisInterval = UINT32_MAX
    /\ pre.timer.mMillisStartPeriod > UINT32_MAX
    /\ pre.timer.mMillisStartPeriod < now
    /\ ret = FALSE

\* The calls that have no business with the object's data.
Accessors ==
    {"IsActive", "GetInterval", "TimeLeftInMillis", "TimePassedInMillis"}

\* C17: only Activate, Deactivate and SetInterval change the active flag and
\* only SetInterval changes the interval; IsActive, GetInterval,
\* TimeLeftInMillis and TimePassedInMillis change nothing.
C17_Frame ==
    /\ op.name \notin {"Activate", "Deactivate", "SetInterval"}
       => timer.mActivated = pre.timer.mActivated
    /\ op.name # "SetInterval"
       => timer.mMillisInterval = pre.timer.mMillisInterval
    /\ op.name \in Accessors => timer = pre.timer

\* ResetInterval on an inactive timer whose period began earlier.
C17_Witness ==
    /\ op.name = "ResetInterval"
    /\ ~pre.timer.mActivated /\ ~timer.mActivated
    /\ pre.timer.mMillisStartPeriod < now
    /\ timer.mMillisStartPeriod = now

\* C18: period_start <= now in every reachable state, so the elapsed time
\* now - period_start is never negative.
C18_StartNotAfterNow ==
    /\ timer.mMillisStartPeriod <= now
    /\ pre.timer.mMillisStartPeriod <= now

\* An override fired some time into a period, on a timer whose interval is
\* not 0.
C18_Witness ==
    /\ Polled /\ ret
    /\ pre.timer.mOverrideIntervalReached
    /\ pre.timer.mMillisInterval > 0
    /\ pre.timer.mMillisStartPeriod < now
    /\ timer.mMillisStartPeriod = now

\* C19: while the current period has not ended
\* (period_start <= now <= period_start + interval),
\* TimeLeftInMillis() + TimePassedInMillis() = GetInterval().
C19_LeftPlusPassed ==
    (/\ timer.mMillisStartPeriod <= now
     /\ now <= timer.mMillisStartPeriod + timer.mMillisInterval)
    => Timer_TimeLeftInMillis(timer, millis)
         + Timer_TimePassedInMillis(timer, millis)
       = Timer_GetInterval(timer)

\* TimeLeftInMillis called strictly inside a period late in the clock's
\* range.
C19_Witness ==
    /\ op.name = "TimeLeftInMillis"
    /\ timer.mMillisStartPeriod > UINT32_MAX
    /\ timer.mMillisStartPeriod < now
    /\ now < timer.mMillisStartPeriod + timer.mMillisInterval
    /\ val > 0
    /\ val + Timer_TimePassedInMillis(timer, millis) = timer.mMillisInterval

\* p / q truncated toward zero (q > 0).
TruncTowardZero(p, q) ==
    IF p >= 0 THEN p \div q ELSE -((-p) \div q)

\* f * multi truncated toward zero and clamped to [0, UINT32_MAX], for a
\* float f that is a number.
MillisOf(f, multi) ==
    CASE f.kind = "inf" -> UINT32_MAX
      [] f.kind = "-inf" -> 0
      [] f.kind = "num" ->
            ClampToUint32(TruncTowardZero(f.num * multi, Pow2(f.exp)))

\* The float with the integer value n.
FloatOf(n) == [kind |-> "num", num |-> n, exp |-> 0]

\* C13: for every argument that is a number, SecToMillis(s) and
\* MinToMillis(m) return s * 1000 and m * 60000 truncated toward zero and
\* clamped to [0, UINT32_MAX]: 0 for a negative argument, UINT32_MAX for a
\* product above UINT32_MAX; SecToMillis(5) is 5000 and MinToMillis(2) is
\* 120000, clamped alike.
C13_Conversions ==
    /\ (op.name = "SecToMillis" /\ op.arg.kind # "nan")
       => /\ val = MillisOf(op.arg, 1000)
          /\ op.arg.num < 0 => val = 0
          /\ op.arg.num * 1000 > UINT32_MAX * Pow2(op.arg.exp)
             => val = UINT32_MAX
          /\ op.arg = FloatOf(5) => val = ClampToUint32(5000)
    /\ (op.name = "MinToMillis" /\ op.arg.kind # "nan")
       => /\ val = MillisOf(op.arg, 60000)
          /\ op.arg.num < 0 => val = 0
          /\ op.arg.num * 60000 > UINT32_MAX * Pow2(op.arg.exp)
             => val = UINT32_MAX
          /\ op.arg = FloatOf(2) => val = ClampToUint32(120000)

\* SecToMillis of a fraction of a second whose product with 1000 is no
\* integer and lies inside the range.
C13_Witness ==
    /\ op.name = "SecToMillis" /\ op.arg.kind = "num"
    /\ (op.arg.num * 1000) % Pow2(op.arg.exp) # 0
    /\ 0 < val /\ val < UINT32_MAX
    /\ val * Pow2(op.arg.exp) < op.arg.num * 1000

\* The last clock value followed from the current one.
ClockEnd ==
    CHOOSE c \in ClockValues :
        /\ c >= now
        /\ \A d \in now .. c : d \in ClockValues
        /\ c + 1 \notin ClockValues

\* C15: an active timer that is polled again and again while the clock
\* advances, with no Deactivate, Activate, ResetInterval or SetInterval,
\* fires: whenever the timer is active and its period ends before the clock
\* values followed do, an IntervalReached call returns true later on, and so
\* again for each period begun by a firing.
C15_FiresEventually ==
    (timer.mActivated
        /\ timer.mMillisStartPeriod + timer.mMillisInterval < ClockEnd)
    ~> (Polled /\ ret)

\* A poll that fires 1 ms past the boundary of a period that began after
\* boot.
C15_Witness ==
    /\ Polled /\ ret /\ ArmedBefore
    /\ pre.timer.mMillisInterval > 0
    /\ ElapsedBefore = pre.timer.mMillisInterval + 1
    /\ pre.timer.mMillisStartPeriod > pre.timer.mMillisInterval
    /\ pre.timer.mMillisStartPeriod <= Horizon

====
